---------------------------- MODULE Spec2Model ----------------------------
(***************************************************************************)
(* Model of the vocal-visualizer components AudioAnalyzer.tsx (recording   *)
(* lifecycle, live capture buffer, offline spectrogram builder) and        *)
(* Spectrogram.tsx (percentile normalisation and heat-map rendering).      *)
(*                                                                         *)
(* Numbers.  JavaScript numbers are modelled in fixed point:               *)
(*   - audio samples in units of 1/SampleUnit,                             *)
(*   - trigonometric values, window coefficients, magnitudes and           *)
(*     intensities in units of 1/Scale,                                    *)
(*   - NaN by the sentinel NaN, which every arithmetic and comparison      *)
(*     operator below treats as JavaScript does (NaN propagates through    *)
(*     arithmetic, every comparison with NaN is false, NaN is falsy).      *)
(* cos and sin are computed with Bhaskara's rational approximation, which  *)
(* is exact at the multiples of a quarter turn.                            *)
(***************************************************************************)
EXTENDS Integers, Sequences, FiniteSets, TLC

VARIABLES
    status,                  \* react-media-recorder status
    analyserRef,             \* analyserRef.current # null
    mediaStreamRef,          \* mediaStreamRef.current # null
    animationFrameRef,       \* a requestAnimationFrame callback is pending
    realtimeSpectrogramRef,  \* realtimeSpectrogramRef.current (rolling live buffer)
    spectrogramData,         \* the displayed matrix (state of AudioAnalyzer, prop of Spectrogram)
    isAnalyzing,             \* isAnalyzing state
    recNo,                   \* number of recordings started so far
    pass,                    \* pass[k]: the processAudioBlob call of recording k
    shownFrom,               \* history: recording whose data spectrogramData holds (0: none)
    published,               \* history: sequence of recordings whose final matrix was published
    closure,                 \* isRecording and spectrogramData.length as captured by the
                             \* updateFrequencyData callback that startRecording called
    frameNo,                 \* history: number of snapshots the analyser has delivered
    arrivals,                \* history: number of snapshots pushed since the last reset
    imageData,               \* imageData.data produced by Spectrogram's canvasData memo
    scaledMagnitude          \* scaledMagnitude of the pixel that is being coloured

vars == << status, analyserRef, mediaStreamRef, animationFrameRef,
           realtimeSpectrogramRef, spectrogramData, isAnalyzing, recNo, pass,
           shownFrom, published, closure, frameNo, arrivals, imageData,
           scaledMagnitude >>

-----------------------------------------------------------------------------
(* Program constants *)

windowSize == 1024
hopSize == 256
fftSize == 128
YieldEvery == 50
LiveCap == 200
AnalyserFftSize == 2048

(* Fixed-point resolution *)
Scale == 10 * 100
SampleUnit == 10 * 10

(* Bounds of the model *)
MaxLen == 1540
MaxRecordings == 2
MaxPushes == 203
MaxEarlyFrames == 2
MaxWidth == 2
\* longest waveform of the long-recording specification, in samples
MaxLongLen == 26637
\* widest matrix of the percentile specification, in columns
MaxColumns == 41

-----------------------------------------------------------------------------
(* JavaScript numbers *)

NaN == 0 - 999999999
Infinity == 999999999

IsNaN(x) == x = NaN

\* a < b, a > b, a <= b on JS numbers: false as soon as one side is NaN
Lt(a, b) == (~IsNaN(a)) /\ (~IsNaN(b)) /\ a < b
Gt(a, b) == Lt(b, a)
Le(a, b) == (~IsNaN(a)) /\ (~IsNaN(b)) /\ a <= b

\* x || d : NaN and 0 are falsy
OrElse(x, d) == IF IsNaN(x) \/ x = 0 THEN d ELSE x

\* Math.min(a, b), Math.max(a, b): NaN if either argument is NaN
MathMin(a, b) == IF IsNaN(a) \/ IsNaN(b) THEN NaN ELSE IF a < b THEN a ELSE b
MathMax(a, b) == IF IsNaN(a) \/ IsNaN(b) THEN NaN ELSE IF a > b THEN a ELSE b

\* x / y rounded towards zero (fixed-point product and quotient rounding)
Quot(x, y) == IF x >= 0 THEN x \div y ELSE 0 - ((0 - x) \div y)

\* floor of the square root of n >= 0, by bisection on [lo, hi)
RECURSIVE SqrtBetween(_, _, _)
SqrtBetween(n, lo, hi) ==
    IF hi - lo <= 1 THEN lo
    ELSE LET mid == (lo + hi) \div 2
         IN  IF mid * mid <= n THEN SqrtBetween(n, mid, hi)
                               ELSE SqrtBetween(n, lo, mid)

ISqrt(n) == SqrtBetween(n, 0, 46341)

\* Bhaskara: cos of the angle b/(2n) turns, |b| <= n/2, in 1/Scale
Bhaskara(b, n) == Quot(Scale * (n * n - 4 * b * b), n * n + b * b)

\* Math.cos(2*PI*k/n) in 1/Scale
Cos(k, n) ==
    LET m == k % n
    IN  IF 4 * m <= n THEN Bhaskara(2 * m, n)
        ELSE IF 4 * m >= 3 * n THEN Bhaskara(2 * m - 2 * n, n)
        ELSE 0 - Bhaskara(2 * m - n, n)

\* Math.sin(2*PI*k/n) in 1/Scale
Sin(k, n) == Cos(4 * k - n, 4 * n)

-----------------------------------------------------------------------------
(* Waveforms.  A Float32Array is modelled sparsely: its length and the     *)
(* sequence of its non-zero samples <<index, value>> in increasing index   *)
(* order; every other sample below the length is 0.                        *)

\* the non-zero samples of audioData.slice(i, i + windowSize), as indices into data
InFrame(audioData, i) ==
    { k \in 1..Len(audioData.data) :
        /\ audioData.data[k][1] >= i
        /\ audioData.data[k][1] < i + windowSize
        /\ audioData.data[k][1] < audioData.length }

\* number of samples audioData.slice(i, i + windowSize) returns
SliceLength(audioData, i) ==
    IF i >= audioData.length THEN 0
    ELSE IF i + windowSize <= audioData.length THEN windowSize
    ELSE audioData.length - i

\* 0.54 - 0.46 * Math.cos(2 * Math.PI * j / (windowSize - 1)), in 1/Scale
WindowValue(j) == 540 - Quot(460 * Cos(j, windowSize - 1), Scale)

\* windowedSegment[j] = segment[j] * windowValue (sample units)
Windowed(value, j) ==
    IF IsNaN(value) THEN NaN ELSE Quot(value * WindowValue(j), Scale)

\* A missing segment[j] (slice shorter than the window) is undefined, and
\* undefined * windowValue is NaN; a NaN sample stays NaN.
FrameHasNaN(audioData, i) ==
    \/ SliceLength(audioData, i) < windowSize
    \/ \E k \in InFrame(audioData, i) : IsNaN(audioData.data[k][2])

\* the non-zero entries <<j, windowedSegment[j]>> of windowedSegment for the
\* frame at offset i
WindowedSegment(audioData, i) ==
    LET inside == SelectSeq(audioData.data,
                     LAMBDA s : s[1] >= i /\ s[1] < i + windowSize
                                          /\ s[1] < audioData.length)
    IN  [ n \in 1..Len(inside) |->
            << inside[n][1] - i, Windowed(inside[n][2], inside[n][1] - i) >> ]

RECURSIVE RealSum(_, _, _, _)
\* the terms windowedSegment[t] * Math.cos(angle) of the entries lo..hi of
\* ws, added up (by halves, so that a full frame needs no deep recursion)
RealSum(ws, f, lo, hi) ==
    IF lo > hi THEN 0
    ELSE IF lo = hi THEN Quot(ws[lo][2] * Cos(f * ws[lo][1], fftSize), Scale)
    ELSE RealSum(ws, f, lo, (lo + hi) \div 2) + RealSum(ws, f, ((lo + hi) \div 2) + 1, hi)

\* real += windowedSegment[t] * Math.cos(angle), angle = -2*PI*(f/fftSize)*t,
\* over the entries n..Len(ws) (an entry equal to 0 adds 0)
Real(ws, f, n) == RealSum(ws, f, n, Len(ws))

RECURSIVE ImagSum(_, _, _, _)
\* the terms windowedSegment[t] * Math.sin(angle) of the entries lo..hi of ws
ImagSum(ws, f, lo, hi) ==
    IF lo > hi THEN 0
    ELSE IF lo = hi THEN Quot(ws[lo][2] * (0 - Sin(f * ws[lo][1], fftSize)), Scale)
    ELSE ImagSum(ws, f, lo, (lo + hi) \div 2) + ImagSum(ws, f, ((lo + hi) \div 2) + 1, hi)

\* imag += windowedSegment[t] * Math.sin(angle)
Imag(ws, f, n) == ImagSum(ws, f, n, Len(ws))

Gain == 10

\* Math.sqrt(real * real + imag * imag) / windowSize, times the gain, in 1/Scale
Magnitude10(real, imag) ==
    IF IsNaN(real) \/ IsNaN(imag) THEN NaN
    ELSE Quot(ISqrt(real * real + imag * imag) * Gain * Scale, windowSize * SampleUnit)

\* frequencies[f] = Math.min(1, magnitude * 10)
Clamp1(m) == MathMin(Scale, m)

\* mutant of FrequencyBins: the bin loop runs while f <= fftSize
FrequencyBins_Inclusive == fftSize + 1

\* number of bins the loop `for (f = 0; f < fftSize; f++)` fills
FrequencyBins == fftSize

\* the row `frequencies` of the frame at offset i: entry f1 is bin f = f1 - 1
Frequencies(audioData, i) ==
    LET nan == FrameHasNaN(audioData, i)
        Row(ws) ==
            [ f1 \in 1..FrequencyBins |->
                IF nan THEN Clamp1(Magnitude10(NaN, NaN))
                ELSE Clamp1(Magnitude10(Real(ws, f1 - 1, 1), Imag(ws, f1 - 1, 1))) ]
    IN  CHOOSE row \in { Row(ws) : ws \in { WindowedSegment(audioData, i) } } : TRUE

\* mutant of LoopTest: the window size is not subtracted
LoopTest_NoWindow(audioData, i) == i < audioData.length

\* loop test of generateFullSpectrogram
LoopTest(audioData, i) == i < audioData.length - windowSize

\* mutant of YieldTest: the period is ten hops longer
YieldTest_LongerPeriod(i) == i % (hopSize * (YieldEvery + 10)) = 0

\* the yield test of generateFullSpectrogram
YieldTest(i) == i % (hopSize * YieldEvery) = 0

\* mutant of NextOffset: the offset advances by two hops
NextOffset_TwoHops(i) == i + 2 * hopSize

\* i += hopSize
NextOffset(i) == i + hopSize

\* generateFullSpectrogram from the loop test at offset i up to its next
\* await (done = FALSE, to resume with i += hopSize) or its return (done = TRUE).
\* The offsets the loop visits from i are Visited(0), Visited(1), ...; the run
\* ends at the first of them where the loop test fails (return) or where the
\* frame is followed by the await; every offset before that one, and that
\* one too if its frame is transformed, appends its row.
RunLoop(audioData, i, result, offsets) ==
    LET step == NextOffset(i) - i
        Visited(n) == i + n * step
        Ends(n) == ~LoopTest(audioData, Visited(n)) \/ YieldTest(Visited(n))
        Run(last) ==
            LET done == ~LoopTest(audioData, Visited(last))
                count == IF done THEN last ELSE last + 1
            IN  [ i |-> IF done THEN Visited(last) ELSE NextOffset(Visited(last)),
                  spectrogramResult |->
                      result \o [ n \in 1..count |-> Frequencies(audioData, Visited(n - 1)) ],
                  offsets |-> offsets \o [ n \in 1..count |-> Visited(n - 1) ],
                  done |-> done ]
    IN  CHOOSE r \in { Run(last) :
                         last \in { n \in 0..((audioData.length \div step) + 1) :
                                      Ends(n) /\ \A m \in 0..(n - 1) : ~Ends(m) } } : TRUE

-----------------------------------------------------------------------------
(* The analysis pass of one recording: processAudioBlob and what it awaits. *)
(* pc: "idle"   not started                                                 *)
(*     "decode" awaiting blob.arrayBuffer() / decodeAudioData               *)
(*     "fft"    inside performFFTAnalysis (awaiting its timer and close)    *)
(*     "gen"    inside generateFullSpectrogram, suspended or about to start *)
(*     "close"  final matrix published, awaiting audioContext.close()      *)
(*     "done"   finally block executed                                      *)

NoAudio == [ length |-> 0, data |-> << >> ]

IdlePass ==
    [ pc |-> "idle", audioData |-> NoAudio, i |-> 0,
      spectrogramResult |-> << >>, offsets |-> << >>, failed |-> FALSE ]

Recordings == 1..MaxRecordings

\* the waveform sample lists the model draws from (non-zero samples only)
Silence == << >>
Ramp ==
    << <<0, 100>>, <<256, 200>>, <<512, 300>>, <<768, 400>>,
       <<1024, 500>>, <<1280, 600>>, <<1536, 700>> >>
Loud == << <<300, 0 - 100>>, <<512, 12000>>, <<1279, 12000>> >>
Broken == << <<0, 100>>, <<1100, NaN>> >>

Patterns == { Silence, Ramp, Loud, Broken }

Trim(pattern, length) == SelectSeq(pattern, LAMBDA s : s[1] < length)

Waveform(pattern, length) == [ length |-> length, data |-> Trim(pattern, length) ]

\* every waveform up to MaxLen samples
Waveforms == { Waveform(p, len) : p \in Patterns, len \in 0..MaxLen }

\* what a recording of the lifecycle specification decodes to
RecordedLengths == { 1000, 1300 }
RecordedWaveforms == { Waveform(Ramp, len) : len \in RecordedLengths }

\* lines 176-182: one run of generateFullSpectrogram between two suspension
\* points; when the loop ends, the result is returned and published with
\* setSpectrogramData(fullSpectrogram), and the pass awaits audioContext.close()
GenChunk(k) ==
    /\ pass[k].pc = "gen"
    /\ \E r \in { RunLoop(pass[k].audioData, pass[k].i,
                        pass[k].spectrogramResult, pass[k].offsets) } :
           /\ pass' = [ pass EXCEPT ![k] =
                          [ @ EXCEPT !.pc = IF r.done THEN "close" ELSE "gen",
                                     !.i = r.i,
                                     !.spectrogramResult = r.spectrogramResult,
                                     !.offsets = r.offsets ] ]
           /\ IF r.done
              THEN /\ spectrogramData' = r.spectrogramResult
                   /\ shownFrom' = k
                   /\ published' = Append(published, k)
              ELSE UNCHANGED << spectrogramData, shownFrom, published >>
    /\ UNCHANGED << status, analyserRef, mediaStreamRef, animationFrameRef,
                    realtimeSpectrogramRef, isAnalyzing, recNo, closure, frameNo,
                    arrivals, imageData,
                    scaledMagnitude >>

\* lines 182-188: audioContext.close() resolves, finally { setIsAnalyzing(false) }
Close(k) ==
    /\ pass[k].pc = "close"
    /\ pass' = [ pass EXCEPT ![k] = [ @ EXCEPT !.pc = "done" ] ]
    /\ isAnalyzing' = FALSE
    /\ UNCHANGED << status, analyserRef, mediaStreamRef, animationFrameRef,
                    realtimeSpectrogramRef, spectrogramData, recNo, shownFrom,
                    published, closure, frameNo, arrivals, imageData,
           scaledMagnitude >>

-----------------------------------------------------------------------------
(* SpecBuild: generateFullSpectrogram applied to every waveform of Waveforms *)

InitBuild ==
    /\ status = "stopped"
    /\ analyserRef = TRUE
    /\ mediaStreamRef = FALSE
    /\ animationFrameRef = FALSE
    /\ realtimeSpectrogramRef = << >>
    /\ spectrogramData = << >>
    /\ isAnalyzing = TRUE
    /\ recNo = 1
    /\ \E w \in Waveforms :
          pass = [ k \in Recordings |->
                     IF k = 1 THEN [ IdlePass EXCEPT !.pc = "gen", !.audioData = w ]
                              ELSE IdlePass ]
    /\ shownFrom = 0
    /\ published = << >>
    /\ closure = [ isRecording |-> FALSE, length |-> 0 ]
    /\ frameNo = 0
    /\ arrivals = 0
    /\ imageData = << >>
    /\ scaledMagnitude = 0

NextBuild == \E k \in Recordings : GenChunk(k) \/ Close(k)

SpecBuild == InitBuild /\ [][NextBuild]_vars

\* generateFullSpectrogram of pass k has returned
Returned(k) == pass[k].pc \in { "close", "done" } /\ ~pass[k].failed

\* C1: for every waveform of length L >= windowSize the returned matrix has
\* floor((L - windowSize) / hopSize) + 1 rows
C1_RowCount ==
    \A k \in Recordings :
        (Returned(k) /\ pass[k].audioData.length >= windowSize) =>
            Len(pass[k].spectrogramResult) =
                ((pass[k].audioData.length - windowSize) \div hopSize) + 1

\* C8: for every waveform shorter than windowSize (the empty one included)
\* generateFullSpectrogram runs to its return and returns zero rows
C8_ShortWaveformEmpty ==
    \A k \in Recordings :
        pass[k].audioData.length < windowSize =>
            /\ pass[k].pc = "gen" => ENABLED GenChunk(k)
            /\ Returned(k) => pass[k].spectrogramResult = << >>
            /\ (Returned(k) /\ published # << >>) => spectrogramData = << >>

C8_Witness ==
    /\ Returned(1)
    /\ pass[1].audioData.length = windowSize - 1
    /\ pass[1].audioData.data # << >>
    /\ pass[1].spectrogramResult = << >>

AllRows ==
    UNION { { pass[k].spectrogramResult[r] : r \in 1..Len(pass[k].spectrogramResult) } :
              k \in Recordings }
      \cup { spectrogramData[r] : r \in 1..Len(spectrogramData) }

\* C7: no row built by generateFullSpectrogram, and so no matrix handed to
\* the renderer, holds a non-finite value (a NaN magnitude is stored as 0)
C7_OnlyFiniteStored ==
    \A row \in AllRows : \A f1 \in 1..Len(row) : ~IsNaN(row[f1])

\* C9: row r of the result is the transform of the frame at offset
\* (r-1)*hopSize, the offsets grow strictly in the order the rows were
\* appended, and each frame lies inside the waveform
C9_RowsInOffsetOrder ==
    \A k \in Recordings :
        LET p == pass[k]
        IN  /\ Len(p.offsets) = Len(p.spectrogramResult)
            /\ \A r \in 1..Len(p.offsets) :
                  /\ p.offsets[r] = (r - 1) * hopSize
                  /\ r > 1 => p.offsets[r - 1] < p.offsets[r]
                  /\ p.offsets[r] + windowSize <= p.audioData.length
                  /\ p.spectrogramResult[r] = Frequencies(p.audioData, p.offsets[r])

C9_Witness ==
    /\ Returned(1)
    /\ Len(pass[1].spectrogramResult) = 3
    /\ pass[1].spectrogramResult[1] # pass[1].spectrogramResult[2]
    /\ pass[1].spectrogramResult[2] # pass[1].spectrogramResult[3]

\* C10: every row of every matrix generateFullSpectrogram builds or returns
\* has exactly fftSize columns
C10_RowWidth == \A row \in AllRows : Len(row) = fftSize

C10_Witness ==
    /\ Returned(1)
    /\ Len(spectrogramData) >= 2
    /\ \E f1 \in 1..fftSize : spectrogramData[1][f1] > 0

\* C11: every magnitude stored in a row by the per-frame transform is >= 0
\* and <= 1, whatever the samples of the frame are
C11_MagnitudeInUnitRange ==
    \A row \in AllRows : \A f1 \in 1..Len(row) :
        Le(0, row[f1]) /\ Le(row[f1], Scale)

-----------------------------------------------------------------------------
(* Live capture: updateFrequencyData *)

\* analyserRef.current.frequencyBinCount
bufferLength == AnalyserFftSize \div 2

\* getByteFrequencyData for the n-th snapshot the analyser delivers: bytes
\* that differ from one snapshot to the next
ByteFrequencyData(n) == [ b \in 1..bufferLength |-> (3 * n + b) % 256 ]

\* normalizedData.slice(0, Math.floor(bufferLength / 4)), value / 255 in 1/Scale
SpectrogramSlice(n) ==
    [ b \in 1..(bufferLength \div 4) |-> Quot(ByteFrequencyData(n)[b] * Scale, 255) ]

\* mutant of Evict: the newest slice is dropped (pop) instead of the oldest
Evict_Pop(buffer) ==
    IF Len(buffer) > LiveCap THEN SubSeq(buffer, 1, Len(buffer) - 1) ELSE buffer

\* lines 143-145: keep only the last LiveCap time slices
Evict(buffer) == IF Len(buffer) > LiveCap THEN Tail(buffer) ELSE buffer

\* mutant of Push: the slice is put in front (unshift)
Push_Unshift(buffer, slice) == << slice >> \o buffer

\* line 140: realtimeSpectrogramRef.current.push(spectrogramSlice)
Push(buffer, slice) == Append(buffer, slice)

\* lines 128-154, called through a callback that captured c.isRecording and
\* c.length; `pending` is whether a frame stays requested when the guard fails
UpdateFrequencyData(c, analyser, pending) ==
    IF analyser /\ c.isRecording
    THEN /\ realtimeSpectrogramRef' =
               Evict(Push(realtimeSpectrogramRef, SpectrogramSlice(frameNo + 1)))
         /\ frameNo' = frameNo + 1
         /\ arrivals' = arrivals + 1
         /\ IF c.length = 0
            THEN spectrogramData' = realtimeSpectrogramRef' /\ shownFrom' = 0
            ELSE UNCHANGED << spectrogramData, shownFrom >>
         /\ animationFrameRef' = TRUE
    ELSE /\ animationFrameRef' = pending
         /\ UNCHANGED << realtimeSpectrogramRef, frameNo, arrivals, spectrogramData,
                         shownFrom >>

\* the browser runs the requested animation frame
AnimationFrame ==
    /\ animationFrameRef
    /\ arrivals < MaxPushes
    /\ status = "acquiring_media" => frameNo < MaxEarlyFrames
    /\ UpdateFrequencyData(closure, analyserRef, FALSE)
    /\ UNCHANGED << status, analyserRef, mediaStreamRef, isAnalyzing, recNo, pass,
                    published, closure, imageData,
                    scaledMagnitude >>

-----------------------------------------------------------------------------
(* Recording lifecycle *)

\* lines 91-122 (getUserMedia resolved): the Start button is shown while
\* status is not 'recording'; the updateFrequencyData it calls is the callback
\* of the render that showed the button, so it captured that render's
\* isRecording and spectrogramData.length
StartRecording ==
    /\ status \in { "idle", "stopped" }
    /\ recNo < MaxRecordings
    /\ mediaStreamRef' = TRUE
    /\ analyserRef' = TRUE
    /\ closure' = [ isRecording |-> (status = "recording"),
                    length |-> Len(spectrogramData) ]
    /\ UpdateFrequencyData(closure', TRUE, animationFrameRef)
    /\ status' = "acquiring_media"
    /\ UNCHANGED << isAnalyzing, recNo, pass, published, imageData,
                    scaledMagnitude >>

\* mutant of OnStart: the handler also empties the rows that the passes
\* in progress have built so far
OnStart_EmptiesRows ==
    /\ status = "acquiring_media"
    /\ status' = "recording"
    /\ realtimeSpectrogramRef' = << >>
    /\ spectrogramData' = << >>
    /\ shownFrom' = 0
    /\ arrivals' = 0
    /\ recNo' = recNo + 1
    /\ pass' = [ k \in Recordings |->
                   [ pass[k] EXCEPT !.spectrogramResult = << >>, !.offsets = << >> ] ]
    /\ UNCHANGED << analyserRef, mediaStreamRef, animationFrameRef, isAnalyzing,
                    published, closure, frameNo, imageData,
                    scaledMagnitude >>

\* lines 40-51: the recorder has started
OnStart ==
    /\ status = "acquiring_media"
    /\ status' = "recording"
    /\ realtimeSpectrogramRef' = << >>
    /\ spectrogramData' = << >>
    /\ shownFrom' = 0
    /\ arrivals' = 0
    /\ recNo' = recNo + 1
    /\ UNCHANGED << analyserRef, mediaStreamRef, animationFrameRef, isAnalyzing, pass,
                    published, closure, frameNo, imageData,
                    scaledMagnitude >>

\* lines 124-126: the Stop button
StopRecording ==
    /\ status = "recording"
    /\ status' = "stopping"
    /\ UNCHANGED << analyserRef, mediaStreamRef, animationFrameRef,
                    realtimeSpectrogramRef, spectrogramData, isAnalyzing, recNo, pass,
                    shownFrom, published, closure, frameNo, arrivals, imageData,
                    scaledMagnitude >>

\* lines 52-71 and 156-161: the recorder has stopped; processAudioBlob runs
\* up to its first await
OnStop ==
    /\ status = "stopping"
    /\ status' = "stopped"
    /\ animationFrameRef' = FALSE
    /\ mediaStreamRef' = FALSE
    /\ isAnalyzing' = TRUE
    /\ pass' = [ pass EXCEPT ![recNo] = [ @ EXCEPT !.pc = "decode" ] ]
    /\ UNCHANGED << analyserRef, realtimeSpectrogramRef, spectrogramData, recNo,
                    shownFrom, published, closure, frameNo, arrivals, imageData,
                    scaledMagnitude >>

\* lines 161-172 and 183-188: decodeAudioData resolves with a waveform and
\* performFFTAnalysis starts, or it rejects and catch/finally run
Decode(k) ==
    /\ pass[k].pc = "decode"
    /\ \/ /\ \E w \in RecordedWaveforms :
               pass' = [ pass EXCEPT ![k] = [ @ EXCEPT !.pc = "fft", !.audioData = w ] ]
          /\ UNCHANGED isAnalyzing
       \/ /\ pass' = [ pass EXCEPT ![k] = [ @ EXCEPT !.pc = "done", !.failed = TRUE ] ]
          /\ isAnalyzing' = FALSE
    /\ UNCHANGED << status, analyserRef, mediaStreamRef, animationFrameRef,
                    realtimeSpectrogramRef, spectrogramData, recNo, shownFrom,
                    published, closure, frameNo, arrivals, imageData,
                    scaledMagnitude >>

\* lines 240-275 and 183-188: performFFTAnalysis finishes (its timer and close
\* resolve) and generateFullSpectrogram is entered with i = 0 and an empty
\* result, or it throws (new AudioContext, createBuffer, close) and
\* catch/finally run
PerformFFTAnalysis(k) ==
    /\ pass[k].pc = "fft"
    /\ \/ /\ pass' = [ pass EXCEPT ![k] =
                         [ @ EXCEPT !.pc = "gen", !.i = 0, !.spectrogramResult = << >>,
                                    !.offsets = << >> ] ]
          /\ UNCHANGED isAnalyzing
       \/ /\ pass' = [ pass EXCEPT ![k] = [ @ EXCEPT !.pc = "done", !.failed = TRUE ] ]
          /\ isAnalyzing' = FALSE
    /\ UNCHANGED << status, analyserRef, mediaStreamRef, animationFrameRef,
                    realtimeSpectrogramRef, spectrogramData, recNo,
                    shownFrom, published, closure, frameNo, arrivals, imageData,
                    scaledMagnitude >>

Init ==
    /\ status = "idle"
    /\ analyserRef = FALSE
    /\ mediaStreamRef = FALSE
    /\ animationFrameRef = FALSE
    /\ realtimeSpectrogramRef = << >>
    /\ spectrogramData = << >>
    /\ isAnalyzing = FALSE
    /\ recNo = 0
    /\ pass = [ k \in Recordings |-> IdlePass ]
    /\ shownFrom = 0
    /\ published = << >>
    /\ closure = [ isRecording |-> FALSE, length |-> 0 ]
    /\ frameNo = 0
    /\ arrivals = 0
    /\ imageData = << >>
    /\ scaledMagnitude = 0

Next ==
    \/ StartRecording
    \/ OnStart
    \/ StopRecording
    \/ OnStop
    \/ \E k \in Recordings : Decode(k)
    \/ \E k \in Recordings : PerformFFTAnalysis(k)
    \/ \E k \in Recordings : GenChunk(k)
    \/ \E k \in Recordings : Close(k)

Spec == Init /\ [][Next]_vars

\* C2: once a recording has started, the displayed matrix holds no rows
\* computed from an earlier recording
C2_NoStaleRows == (shownFrom # 0 /\ shownFrom # recNo) => spectrogramData = << >>

\* C3: once the final matrix of a recording is displayed, the displayed
\* matrix stays that matrix until the next recording starts (onStart)
C3_FinalStays ==
    [][ (shownFrom # 0 /\ spectrogramData # << >> /\ recNo' = recNo) =>
            (spectrogramData' = spectrogramData /\ shownFrom' = shownFrom) ]_vars

\* C18: while a recording is active (status 'recording' and an analyser
\* exists) the live capture loop runs: its next animation frame is scheduled
C18_LiveLoopRuns == (status = "recording" /\ analyserRef) => animationFrameRef

\* the matrix generateFullSpectrogram returns when its loop runs without any
\* await: the rows of the offsets 0, hopSize, 2 * hopSize, ... that pass the
\* loop test
WithoutYield(audioData) ==
    LET count == Cardinality({ n \in 0..(audioData.length \div hopSize) :
                                 LoopTest(audioData, n * hopSize) })
    IN  [ r \in 1..count |-> Frequencies(audioData, (r - 1) * hopSize) ]

\* C19: generateFullSpectrogram is the only writer of its in-progress
\* result: the rows it holds while suspended are a prefix of the rows after
\* every step, a step of anything else (start, stop, another pass) leaves
\* them as they are, and the matrix it returns is the one a run without
\* yielding gives
C19_SoleWriter ==
    [][ \A k \in Recordings :
          pass[k].pc = "gen" =>
              /\ Len(pass'[k].spectrogramResult) >= Len(pass[k].spectrogramResult)
              /\ SubSeq(pass'[k].spectrogramResult, 1, Len(pass[k].spectrogramResult))
                    = pass[k].spectrogramResult
              /\ (pass'[k].pc = "gen" /\ pass'[k].i = pass[k].i) =>
                    pass'[k].spectrogramResult = pass[k].spectrogramResult
              /\ pass'[k].pc = "close" =>
                    /\ pass'[k].spectrogramResult = WithoutYield(pass[k].audioData)
                    /\ spectrogramData' = pass'[k].spectrogramResult
      ]_vars

\* the pass of the first recording is suspended with one row built while
\* the second recording has started
C19_Witness ==
    /\ pass[1].pc = "gen"
    /\ Len(pass[1].spectrogramResult) = 1
    /\ recNo = 2
    /\ status = "recording"

\* processAudioBlob of recording k has been called and its finally block has
\* not run yet
Running(k) == pass[k].pc \in { "decode", "fft", "gen", "close" }

\* C21: isAnalyzing is true while an analysis pass started by onStop runs
C21_AnalyzingWhileRunning == \A k \in Recordings : Running(k) => isAnalyzing

\* the step that ends a pass (finally) leaves isAnalyzing false, whether the
\* pass published its final matrix or failed
PassEndsNotAnalyzing ==
    [][ \A k \in Recordings :
          (Running(k) /\ pass'[k].pc = "done") => ~isAnalyzing' ]_vars

\* the step in which a pass fails (catch) does not replace the displayed matrix
FailureKeepsDisplay ==
    [][ \A k \in Recordings :
          (~pass[k].failed /\ pass'[k].failed) =>
              (spectrogramData' = spectrogramData /\ shownFrom' = shownFrom) ]_vars

\* the lifecycle when every promise and timer a pass awaits is settled:
\* decodeAudioData, the timer and close of performFFTAnalysis, and
\* audioContext.close()
SpecFair ==
    /\ Spec
    /\ \A k \in Recordings :
          /\ WF_vars(Decode(k))
          /\ WF_vars(PerformFFTAnalysis(k))
          /\ WF_vars(Close(k))

\* the timer of every yield of generateFullSpectrogram fires: weak fairness
\* of GenChunk(k), which is enabled exactly when pass k is at "gen"
YieldTimersFire ==
    \A k \in Recordings :
        []<>(pass[k].pc # "gen") \/ []<><<GenChunk(k)>>_vars

\* every pass that was started reaches the end of its finally block
EveryPassFinishes ==
    YieldTimersFire => \A k \in Recordings : (Running(k) ~> pass[k].pc = "done")

-----------------------------------------------------------------------------
(* SpecLive: the capture loop run through a callback that captured          *)
(* isRecording = true and an empty displayed matrix, from the state in      *)
(* which startRecording has called it once                                  *)

InitLive ==
    /\ status = "acquiring_media"
    /\ analyserRef = TRUE
    /\ mediaStreamRef = TRUE
    /\ animationFrameRef = TRUE
    /\ realtimeSpectrogramRef = << SpectrogramSlice(1) >>
    /\ spectrogramData = << SpectrogramSlice(1) >>
    /\ isAnalyzing = FALSE
    /\ recNo = 0
    /\ pass = [ k \in Recordings |-> IdlePass ]
    /\ shownFrom = 0
    /\ published = << >>
    /\ closure = [ isRecording |-> TRUE, length |-> 0 ]
    /\ frameNo = 1
    /\ arrivals = 1
    /\ imageData = << >>
    /\ scaledMagnitude = 0

NextLive == AnimationFrame \/ OnStart \/ StopRecording \/ OnStop

SpecLive == InitLive /\ [][NextLive]_vars

Min(a, b) == IF a < b THEN a ELSE b

\* C4: after n pushes since the last reset the rolling buffer holds exactly
\* the most recent min(n, LiveCap) snapshots, oldest first
C4_RollingBuffer ==
    LET m == Min(arrivals, LiveCap)
    IN  /\ Len(realtimeSpectrogramRef) = m
        /\ Len(realtimeSpectrogramRef) <= LiveCap
        /\ \A j \in 1..m :
              realtimeSpectrogramRef[j] = SpectrogramSlice(frameNo - m + j)

C4_Witness ==
    /\ arrivals >= LiveCap + 2
    /\ Len(realtimeSpectrogramRef) = LiveCap
    /\ frameNo > arrivals

-----------------------------------------------------------------------------
(* Spectrogram.tsx: the canvasData memo *)

\* allValues: the positive values in scan order (x outer, y inner),
\* value = spectrogramData[x][y] || 0
AllValues(m) ==
    LET height == Len(m[1])
        scanned == [ n \in 1..(Len(m) * height) |->
                       OrElse(m[((n - 1) \div height) + 1][((n - 1) % height) + 1], 0) ]
    IN  SelectSeq(scanned, LAMBDA value : Gt(value, 0))

\* allValues.sort((a, b) => a - b): the element at place k of the ascending
\* order is the value v with fewer than k elements below it and at least k
\* elements not above it
Sort(values) ==
    [ k \in 1..Len(values) |->
        CHOOSE v \in { values[i] : i \in 1..Len(values) } :
            /\ Cardinality({ i \in 1..Len(values) : values[i] < v }) < k
            /\ k <= Cardinality({ i \in 1..Len(values) : values[i] <= v }) ]

RECURSIVE MaxOf(_, _)
\* maxValue: starts at 0, raised by every value > maxValue
MaxOf(values, n) ==
    IF n = 0 THEN 0
    ELSE LET rest == MaxOf(values, n - 1)
         IN  IF Gt(values[n], rest) THEN values[n] ELSE rest

RECURSIVE MinOf(_, _)
\* minValue: starts at Infinity, lowered by every positive value < minValue
MinOf(values, n) ==
    IF n = 0 THEN Infinity
    ELSE LET rest == MinOf(values, n - 1)
         IN  IF Lt(values[n], rest) THEN values[n] ELSE rest

\* mutant of Index95: the index is rounded up
Index95_Ceil(n) == (n * 95 + 99) \div 100

\* Math.floor(allValues.length * 0.95) and Math.floor(allValues.length * 0.05)
Index95(n) == (n * 95) \div 100
Index5(n) == (n * 5) \div 100

\* allValues[index] || fallback (an index outside the array reads undefined)
ElementOr(sorted, index, fallback) ==
    IF index + 1 \in DOMAIN sorted THEN OrElse(sorted[index + 1], fallback) ELSE fallback

\* lines 37-54: p5 and p95 of the matrix
Percentiles(m) ==
    LET all == AllValues(m)
        sorted == Sort(all)
    IN  [ p95 |-> ElementOr(sorted, Index95(Len(all)), MaxOf(all, Len(all))),
          p5 |-> ElementOr(sorted, Index5(Len(all)), MinOf(all, Len(all))) ]

\* a / b on JS numbers, in 1/Scale: 0 / 0 is NaN, x / 0 is Infinity
Divide(a, b) ==
    IF IsNaN(a) \/ IsNaN(b) THEN NaN
    ELSE IF b = 0 THEN (IF a = 0 THEN NaN ELSE Infinity)
    ELSE Quot(a * Scale, b)

\* mutant of NormalizedMagnitude: the distance to p95 is normalized
NormalizedMagnitude_Inverted(raw, p) ==
    LET rawMagnitude == OrElse(raw, 0)
    IN  IF Le(rawMagnitude, 0) THEN 0
        ELSE LET clampedValue == MathMax(p.p5, MathMin(p.p95, rawMagnitude))
             IN  Divide(p.p95 - clampedValue, p.p95 - p.p5)

\* mutant of NormalizedMagnitude: only negative values are mapped to 0, so
\* a zero is clamped into [p5, p95] (Infinity - Infinity is NaN)
NormalizedMagnitude_StrictZero(raw, p) ==
    LET rawMagnitude == OrElse(raw, 0)
    IN  IF Lt(rawMagnitude, 0) THEN 0
        ELSE LET clampedValue == MathMax(p.p5, MathMin(p.p95, rawMagnitude))
             IN  IF clampedValue = Infinity /\ p.p5 = Infinity THEN NaN
                 ELSE Divide(clampedValue - p.p5, p.p95 - p.p5)

\* lines 66-76: normalizedMagnitude of a raw matrix entry
NormalizedMagnitude(raw, p) ==
    LET rawMagnitude == OrElse(raw, 0)
    IN  IF Le(rawMagnitude, 0) THEN 0
        ELSE LET clampedValue == MathMax(p.p5, MathMin(p.p95, rawMagnitude))
             IN  Divide(clampedValue - p.p5, p.p95 - p.p5)

\* line 79: Math.pow(normalizedMagnitude, 0.5), in 1/Scale
ScaledMagnitude(raw, p) ==
    LET n == NormalizedMagnitude(raw, p)
    IN  IF IsNaN(n) THEN NaN
        ELSE IF n = Infinity THEN Infinity
        ELSE ISqrt(n * Scale)

\* mutant of FloorLin: the base a of the channel is dropped
FloorLin_NoBase(a, b, num, den) == (num * b) \div den

\* Math.floor(a + t * b) for t = num / den, NaN if t is NaN
FloorLin(a, b, num, den) == (a * den + num * b) \div den

\* lines 81-118: r, g, b, alpha for a scaled magnitude s (every comparison
\* with NaN is false, so NaN falls to the last branch and g is NaN there)
HeatColor(s) ==
    IF Lt(s, Scale \div 100)
    THEN << 0, 0, (s * 2000) \div Scale, 255 >>
    ELSE IF Lt(s, Scale \div 4)
    THEN << 0, 0, FloorLin(50, 155, s, Scale \div 4), 255 >>
    ELSE IF Lt(s, Scale \div 2)
    THEN << 0,
            FloorLin(0, 180, s - Scale \div 4, Scale \div 4),
            FloorLin(205, 0 - 50, s - Scale \div 4, Scale \div 4),
            255 >>
    ELSE IF Lt(s, (3 * Scale) \div 4)
    THEN << FloorLin(0, 255, s - Scale \div 2, Scale \div 4),
            FloorLin(180, 75, s - Scale \div 2, Scale \div 4),
            FloorLin(155, 0 - 155, s - Scale \div 2, Scale \div 4),
            255 >>
    ELSE << 255,
            IF IsNaN(s) THEN NaN
            ELSE FloorLin(255, 0 - 255, s - (3 * Scale) \div 4, Scale \div 4),
            0,
            255 >>

\* a store into imageData.data (Uint8ClampedArray): NaN becomes 0, other
\* values are clamped to 0..255
ToUint8Clamped(v) ==
    IF IsNaN(v) THEN 0 ELSE IF v < 0 THEN 0 ELSE IF v > 255 THEN 255 ELSE v

\* mutant of Pixel: the bins are not flipped, pixel row y shows bin y
Pixel_NoFlip(m, p, x, y) ==
    LET c == HeatColor(ScaledMagnitude(m[x + 1][y + 1], p))
    IN  [ ch \in 1..4 |-> ToUint8Clamped(c[ch]) ]

\* lines 64-125: the r, g, b, alpha stored for the pixel at column x, row y,
\* computed from data[x][height - 1 - y]
Pixel(m, p, x, y) ==
    LET height == Len(m[1])
        c == HeatColor(ScaledMagnitude(m[x + 1][(height - 1 - y) + 1], p))
    IN  [ ch \in 1..4 |-> ToUint8Clamped(c[ch]) ]

\* lines 60-125: imageData.data after the two loops; the four bytes of the
\* pixel at column x, row y are stored from index = (y * width + x) * 4, so
\* byte j belongs to the pixel y * width + x = j \div 4 (j1 = j + 1)
ImageOf(m, p) ==
    LET width == Len(m)
        height == Len(m[1])
    IN  [ j1 \in 1..(width * height * 4) |->
            LET n == (j1 - 1) \div 4
            IN  Pixel(m, p, n % width, n \div width)[((j1 - 1) % 4) + 1] ]

\* lines 10-132: null (the empty sequence) without data, else the bytes of
\* imageData.data
CanvasData(m) ==
    IF Len(m) = 0 \/ Len(m[1]) = 0 THEN << >>
    ELSE CHOOSE img \in { ImageOf(m, p) : p \in { Percentiles(m) } } : TRUE

-----------------------------------------------------------------------------
(* SpecRender: the Spectrogram component given every matrix of Matrices *)

Heights == { 1, 2 }
Values == { 0, 300, 700, Scale, NaN }

Matrices ==
    UNION { [ 1..w -> [ 1..h -> Values ] ] : w \in 1..MaxWidth, h \in Heights }

\* the component renders: the canvasData memo is computed from the prop
Render ==
    /\ imageData = << >>
    /\ imageData' = CanvasData(spectrogramData)
    /\ UNCHANGED << status, analyserRef, mediaStreamRef, animationFrameRef,
                    realtimeSpectrogramRef, spectrogramData, isAnalyzing, recNo, pass,
                    shownFrom, published, closure, frameNo, arrivals,
                    scaledMagnitude >>

\* the component is mounted with a matrix of Matrices and has not rendered yet
InitRender ==
    /\ status = "stopped"
    /\ analyserRef = TRUE
    /\ mediaStreamRef = FALSE
    /\ animationFrameRef = FALSE
    /\ realtimeSpectrogramRef = << >>
    /\ spectrogramData \in Matrices
    /\ isAnalyzing = FALSE
    /\ recNo = 1
    /\ pass = [ k \in Recordings |-> IdlePass ]
    /\ shownFrom = 0
    /\ published = << >>
    /\ closure = [ isRecording |-> FALSE, length |-> 0 ]
    /\ frameNo = 0
    /\ arrivals = 0
    /\ imageData = << >>
    /\ scaledMagnitude = 0

NextRender == Render

SpecRender == InitRender /\ [][NextRender]_vars

Positive(m) == { v \in { m[x][y] : x \in 1..Len(m), y \in 1..Len(m[1]) } : Gt(v, 0) }

Black == << 0, 0, 0, 255 >>

\* the r, g, b, alpha bytes stored from index n * 4 of imageData.data
PixelAt(n) ==
    << imageData[n * 4 + 1], imageData[n * 4 + 2], imageData[n * 4 + 3],
       imageData[n * 4 + 4] >>

\* C5: when p95 = p5 every positive value normalizes to 0 and its pixel is
\* black
C5_DegenerateRangeBlack ==
    (imageData # << >> /\ Positive(spectrogramData) # {}
        /\ Percentiles(spectrogramData).p95 = Percentiles(spectrogramData).p5) =>
        /\ \A v \in Positive(spectrogramData) :
              NormalizedMagnitude(v, Percentiles(spectrogramData)) = 0
        /\ \A n \in 0..((Len(imageData) \div 4) - 1) : PixelAt(n) = Black

\* C6: every scaled intensity the renderer computes is in [0, 1], and is 0
\* when every input value is 0
C6_IntensityInUnitRange ==
    imageData # << >> =>
        \A x \in 1..Len(spectrogramData) : \A y \in 1..Len(spectrogramData[1]) :
            LET s == ScaledMagnitude(spectrogramData[x][y], Percentiles(spectrogramData))
                n == NormalizedMagnitude(spectrogramData[x][y], Percentiles(spectrogramData))
            IN  /\ Le(0, n) /\ Le(n, Scale)
                /\ Le(0, s) /\ Le(s, Scale)
                /\ (\A x2 \in 1..Len(spectrogramData) :
                      \A y2 \in 1..Len(spectrogramData[1]) :
                          spectrogramData[x2][y2] = 0) => (n = 0 /\ s = 0)

\* C12: the pixel at column x, row y is computed from matrix[x][H - 1 - y]
\* and written at buffer index (y * width + x) * 4, so pixel row 0 shows bin
\* H - 1 and pixel row H - 1 shows bin 0
C12_FlippedPixelAtIndex ==
    imageData # << >> =>
        LET m == spectrogramData
            width == Len(m)
            H == Len(m[1])
            p == Percentiles(m)
            Colour(x, bin) ==
                LET c == HeatColor(ScaledMagnitude(m[x + 1][bin + 1], p))
                IN  [ ch \in 1..4 |-> ToUint8Clamped(c[ch]) ]
        IN  /\ Len(imageData) = width * H * 4
            /\ \A x \in 0..(width - 1) : \A y \in 0..(H - 1) :
                  PixelAt(y * width + x) = Colour(x, H - 1 - y)
            /\ \A x \in 0..(width - 1) :
                  /\ PixelAt(x) = Colour(x, H - 1)
                  /\ PixelAt((H - 1) * width + x) = Colour(x, 0)

\* a rendered two-column, two-row image whose pixel rows differ in both
\* columns and whose columns differ in the top row
C12_Witness ==
    /\ imageData # << >>
    /\ Len(spectrogramData) = 2
    /\ Len(spectrogramData[1]) = 2
    /\ PixelAt(0) # PixelAt(2)
    /\ PixelAt(1) # PixelAt(3)
    /\ PixelAt(0) # PixelAt(1)

-----------------------------------------------------------------------------
(* SpecRaise: the Spectrogram component is rendered with a matrix of       *)
(* Matrices and then re-rendered with matrices that differ from the last   *)
(* one in a single, larger entry                                           *)

\* the data prop changes in entry [x][y], which becomes the larger number v,
\* and the canvasData memo (dependency [data]) is recomputed
RaiseMagnitude ==
    /\ imageData # << >>
    /\ \E x \in 1..Len(spectrogramData) : \E y \in 1..Len(spectrogramData[1]) :
       \E v \in Values \ { NaN } :
          /\ ~IsNaN(spectrogramData[x][y])
          /\ v > spectrogramData[x][y]
          /\ spectrogramData' = [ spectrogramData EXCEPT ![x][y] = v ]
    /\ imageData' = CanvasData(spectrogramData')
    /\ UNCHANGED << status, analyserRef, mediaStreamRef, animationFrameRef,
                    realtimeSpectrogramRef, isAnalyzing, recNo, pass,
                    shownFrom, published, closure, frameNo, arrivals,
                    scaledMagnitude >>

\* the matrices the component is first rendered with: every entry is a
\* number and no entry is at the largest value yet
LowMatrices ==
    UNION { [ 1..w -> [ 1..h -> Values \ { Scale, NaN } ] ] :
              w \in 1..MaxWidth, h \in Heights }

InitRaise ==
    /\ status = "stopped"
    /\ analyserRef = TRUE
    /\ mediaStreamRef = FALSE
    /\ animationFrameRef = FALSE
    /\ realtimeSpectrogramRef = << >>
    /\ spectrogramData \in LowMatrices
    /\ isAnalyzing = FALSE
    /\ recNo = 1
    /\ pass = [ k \in Recordings |-> IdlePass ]
    /\ shownFrom = 0
    /\ published = << >>
    /\ closure = [ isRecording |-> FALSE, length |-> 0 ]
    /\ frameNo = 0
    /\ arrivals = 0
    /\ imageData = << >>
    /\ scaledMagnitude = 0

NextRaise == Render \/ RaiseMagnitude

SpecRaise == InitRaise /\ [][NextRaise]_vars

\* entry [x][y] of the matrix is a number that is raised by this step, and
\* every other entry stays as it is
RaisedAt(x, y) ==
    /\ Len(spectrogramData') = Len(spectrogramData)
    /\ x \in 1..Len(spectrogramData)
    /\ y \in 1..Len(spectrogramData[1])
    /\ ~IsNaN(spectrogramData[x][y])
    /\ ~IsNaN(spectrogramData'[x][y])
    /\ spectrogramData'[x][y] > spectrogramData[x][y]
    /\ spectrogramData' = [ spectrogramData EXCEPT ![x][y] = spectrogramData'[x][y] ]

\* the normalized output of entry [x][y] before and after the step
NormalizedBefore(x, y) ==
    NormalizedMagnitude(spectrogramData[x][y], Percentiles(spectrogramData))
NormalizedAfter(x, y) ==
    NormalizedMagnitude(spectrogramData'[x][y], Percentiles(spectrogramData'))

Cells == (1..MaxWidth) \X (1..2)

-----------------------------------------------------------------------------
(* SpecSilence: the whole pipeline, generateFullSpectrogram and then the   *)
(* Spectrogram component, applied to every all-zero waveform of up to      *)
(* MaxLen samples                                                          *)

SilentWaveforms == { Waveform(Silence, len) : len \in 0..MaxLen }

InitSilence ==
    /\ status = "stopped"
    /\ analyserRef = TRUE
    /\ mediaStreamRef = FALSE
    /\ animationFrameRef = FALSE
    /\ realtimeSpectrogramRef = << >>
    /\ spectrogramData = << >>
    /\ isAnalyzing = TRUE
    /\ recNo = 1
    /\ \E w \in SilentWaveforms :
          pass = [ k \in Recordings |->
                     IF k = 1 THEN [ IdlePass EXCEPT !.pc = "gen", !.audioData = w ]
                              ELSE IdlePass ]
    /\ shownFrom = 0
    /\ published = << >>
    /\ closure = [ isRecording |-> FALSE, length |-> 0 ]
    /\ frameNo = 0
    /\ arrivals = 0
    /\ imageData = << >>
    /\ scaledMagnitude = 0

NextSilence == (\E k \in Recordings : GenChunk(k) \/ Close(k)) \/ Render

SpecSilence == InitSilence /\ [][NextSilence]_vars

\* every entry of the matrix m is 0
AllZero(m) == \A x \in 1..Len(m) : \A y \in 1..Len(m[x]) : m[x][y] = 0

-----------------------------------------------------------------------------
(* SpecLong: generateFullSpectrogram applied to waveforms of about a       *)
(* hundred frames, which it builds in several runs between its awaits      *)

\* lengths on both sides of 100 * hopSize + windowSize, where the frame at
\* offset 2 * YieldEvery * hopSize (a third suspension point) appears
LongLengths == (MaxLongLen - 25)..MaxLongLen

LongWaveforms == { Waveform(p, len) : p \in { Silence, Ramp }, len \in LongLengths }

InitLong ==
    /\ status = "stopped"
    /\ analyserRef = TRUE
    /\ mediaStreamRef = FALSE
    /\ animationFrameRef = FALSE
    /\ realtimeSpectrogramRef = << >>
    /\ spectrogramData = << >>
    /\ isAnalyzing = TRUE
    /\ recNo = 1
    /\ \E w \in LongWaveforms :
          pass = [ k \in Recordings |->
                     IF k = 1 THEN [ IdlePass EXCEPT !.pc = "gen", !.audioData = w ]
                              ELSE IdlePass ]
    /\ shownFrom = 0
    /\ published = << >>
    /\ closure = [ isRecording |-> FALSE, length |-> 0 ]
    /\ frameNo = 0
    /\ arrivals = 0
    /\ imageData = << >>
    /\ scaledMagnitude = 0

NextLong == \E k \in Recordings : GenChunk(k) \/ Close(k)

SpecLong == InitLong /\ [][NextLong]_vars

\* C16: between two consecutive suspension points of generateFullSpectrogram
\* (and before the first and after the last one) at most 50 frames are
\* transformed
C16_AtMostFiftyFrames ==
    [][ \A k \in Recordings :
          Len(pass'[k].spectrogramResult) - Len(pass[k].spectrogramResult) <= YieldEvery
      ]_vars

\* the builder is suspended for the second time, 50 frames after the first
C16_Witness ==
    /\ pass[1].pc = "gen"
    /\ Len(pass[1].spectrogramResult) = YieldEvery + 1
    /\ pass[1].i = (YieldEvery + 1) * hopSize

-----------------------------------------------------------------------------
(* SpecTone: the whole pipeline applied to pure tones.  A tone of period P *)
(* samples has the frequency sampleRate / P, that is 2 / P of the Nyquist  *)
(* frequency sampleRate / 2.                                               *)

Periods == { 4, 8, 16, 32 }
Amplitudes == { 10, 20, 30 }
ToneLengths == { windowSize + 1, windowSize + hopSize + 1 }

\* amplitude * Math.sin(2 * PI * n / period) for the samples n < length
\* (amplitude in sample units; the zero samples are not listed)
Tone(period, amplitude, length) ==
    [ length |-> length,
      data |-> SelectSeq([ n1 \in 1..length |->
                             << n1 - 1, Quot(amplitude * Sin(n1 - 1, period), Scale) >> ],
                         LAMBDA s : s[2] # 0) ]

ToneWaveforms ==
    { Tone(P, A, len) : P \in Periods, A \in Amplitudes, len \in ToneLengths }

InitTone ==
    /\ status = "stopped"
    /\ analyserRef = TRUE
    /\ mediaStreamRef = FALSE
    /\ animationFrameRef = FALSE
    /\ realtimeSpectrogramRef = << >>
    /\ spectrogramData = << >>
    /\ isAnalyzing = TRUE
    /\ recNo = 1
    /\ \E w \in ToneWaveforms :
          pass = [ k \in Recordings |->
                     IF k = 1 THEN [ IdlePass EXCEPT !.pc = "gen", !.audioData = w ]
                              ELSE IdlePass ]
    /\ shownFrom = 0
    /\ published = << >>
    /\ closure = [ isRecording |-> FALSE, length |-> 0 ]
    /\ frameNo = 0
    /\ arrivals = 0
    /\ imageData = << >>
    /\ scaledMagnitude = 0

NextTone == (\E k \in Recordings : GenChunk(k) \/ Close(k)) \/ Render

SpecTone == InitTone /\ [][NextTone]_vars

RECURSIVE BinTotal(_, _, _)
\* the magnitudes of bin f in the rows 1..r of the matrix m, added up (the
\* row average of the bin, times the number of rows)
BinTotal(m, f, r) == IF r = 0 THEN 0 ELSE m[r][f + 1] + BinTotal(m, f, r - 1)

\* the bin nearest frequency / (sampleRate / 2) * K for a tone of period P
NyquistBin(P) == (2 * fftSize) \div P

\* C17: for a pure tone the row-averaged magnitude of the spectrogram peaks
\* at the bin nearest frequency / (sampleRate / 2) * K, bin f analysing the
\* frequency f/K of the Nyquist frequency, and the image shows its
\* red/yellow band at that bin's row in every time column
C17_TonePeaksAtNyquistBin ==
    \A P \in Periods :
        (/\ Returned(1)
         /\ spectrogramData # << >>
         /\ \E A \in Amplitudes :
               pass[1].audioData = Tone(P, A, pass[1].audioData.length)) =>
            LET m == spectrogramData
                rows == Len(m)
                peak == NyquistBin(P)
            IN  /\ \A f \in 0..(fftSize - 1) :
                      f # peak => BinTotal(m, f, rows) < BinTotal(m, peak, rows)
                /\ imageData # << >> =>
                      \A x \in 0..(rows - 1) :
                          LET pixel == PixelAt((fftSize - 1 - peak) * rows + x)
                          IN  pixel[1] = 255 /\ pixel[3] = 0

-----------------------------------------------------------------------------
(* SpecPercentile: the Spectrogram component given one-row-high matrices   *)
(* of up to MaxColumns columns, enough values for the indices              *)
(* floor(n * 0.05) and floor(n * 0.95) to leave the ends of the array      *)

\* the value at column x of a matrix of w columns, for each kind of matrix
ColumnValue(kind, w, x) ==
    CASE kind = "ascending"  -> x * 10
      [] kind = "descending" -> (w - x + 1) * 10
      [] kind = "mixed"      -> IF x % 3 = 0 THEN 0 ELSE (((x * 7) % 11) + 1) * 50
      [] kind = "holes"      -> IF x % 4 = 0 THEN NaN ELSE ((x * 5) % 7) * 100
      [] kind = "silent"     -> 0

WideMatrices ==
    { [ x \in 1..w |-> << ColumnValue(kind, w, x) >> ] :
        w \in 1..MaxColumns,
        kind \in { "ascending", "descending", "mixed", "holes", "silent" } }

InitPercentile ==
    /\ status = "stopped"
    /\ analyserRef = TRUE
    /\ mediaStreamRef = FALSE
    /\ animationFrameRef = FALSE
    /\ realtimeSpectrogramRef = << >>
    /\ spectrogramData \in WideMatrices
    /\ isAnalyzing = FALSE
    /\ recNo = 1
    /\ pass = [ k \in Recordings |-> IdlePass ]
    /\ shownFrom = 0
    /\ published = << >>
    /\ closure = [ isRecording |-> FALSE, length |-> 0 ]
    /\ frameNo = 0
    /\ arrivals = 0
    /\ imageData = << >>
    /\ scaledMagnitude = 0

NextPercentile == Render

SpecPercentile == InitPercentile /\ [][NextPercentile]_vars

\* the positive entries of the one-row-high matrix m, as a set of columns
PositiveColumns(m) == { x \in 1..Len(m) : Gt(OrElse(m[x][1], 0), 0) }

\* the sequence sorted holds the positive entries of m in ascending order
IsAscendingOrderOf(sorted, m) ==
    /\ Len(sorted) = Cardinality(PositiveColumns(m))
    /\ \A k \in 1..(Len(sorted) - 1) : sorted[k] <= sorted[k + 1]
    /\ \A x \in PositiveColumns(m) :
          Cardinality({ k \in 1..Len(sorted) : sorted[k] = m[x][1] })
              = Cardinality({ x2 \in PositiveColumns(m) : m[x2][1] = m[x][1] })

\* C20: for a matrix with n >= 1 positive values sorted ascending, p5 is
\* the element at index floor(n * 0.05) and p95 the element at index
\* floor(n * 0.95); both indices are inside the array, so p5 <= p95, and the
\* min/max fallback is used only when there is no positive value
C20_PercentileIndices ==
    imageData # << >> =>
        LET m == spectrogramData
            n == Cardinality(PositiveColumns(m))
            sorted == Sort(AllValues(m))
            p == Percentiles(m)
        IN  /\ IsAscendingOrderOf(sorted, m)
            /\ n >= 1 =>
                  /\ (n * 5) \div 100 \in 0..(n - 1)
                  /\ (n * 95) \div 100 \in 0..(n - 1)
                  /\ p.p5 = sorted[((n * 5) \div 100) + 1]
                  /\ p.p95 = sorted[((n * 95) \div 100) + 1]
                  /\ p.p5 <= p.p95
            /\ n = 0 => (p.p5 = Infinity /\ p.p95 = 0)

\* a rendered matrix of 41 distinct positive values: p5 is the third
\* smallest one and p95 the third largest one
C20_Witness ==
    /\ imageData # << >>
    /\ Len(spectrogramData) = 41
    /\ Cardinality(PositiveColumns(spectrogramData)) = 41
    /\ Percentiles(spectrogramData) = [ p95 |-> 390, p5 |-> 30 ]

-----------------------------------------------------------------------------
(* SpecColour: the heat-map colour mapping applied to every scaled         *)
(* magnitude of Intensities                                                *)

\* every scaled magnitude of [0, 1], in steps of 1/Scale
Intensities == 0..Scale

\* lines 81-124: the colour of one pixel is computed from scaledMagnitude
\* and stored as the four bytes of a one-pixel buffer
ColourPixel ==
    /\ imageData = << >>
    /\ imageData' = [ ch \in 1..4 |-> ToUint8Clamped(HeatColor(scaledMagnitude)[ch]) ]
    /\ UNCHANGED << status, analyserRef, mediaStreamRef, animationFrameRef,
                    realtimeSpectrogramRef, spectrogramData, isAnalyzing, recNo, pass,
                    shownFrom, published, closure, frameNo, arrivals,
                    scaledMagnitude >>

InitColour ==
    /\ status = "stopped"
    /\ analyserRef = TRUE
    /\ mediaStreamRef = FALSE
    /\ animationFrameRef = FALSE
    /\ realtimeSpectrogramRef = << >>
    /\ spectrogramData = << >>
    /\ isAnalyzing = FALSE
    /\ recNo = 1
    /\ pass = [ k \in Recordings |-> IdlePass ]
    /\ shownFrom = 0
    /\ published = << >>
    /\ closure = [ isRecording |-> FALSE, length |-> 0 ]
    /\ frameNo = 0
    /\ arrivals = 0
    /\ imageData = << >>
    /\ scaledMagnitude \in Intensities

NextColour == ColourPixel

SpecColour == InitColour /\ [][NextColour]_vars

\* C13: every scaled intensity s of [0, 1] is coloured by exactly one of the
\* five bands split at 0.01, 0.25, 0.5 and 0.75, with the channel ranges
\* of that band (which meet at the splits), every channel is an integer of
\* 0..255 and alpha is 255
C13_FiveBands ==
    imageData # << >> =>
        LET s == scaledMagnitude
            r == imageData[1]
            g == imageData[2]
            b == imageData[3]
        IN  /\ \A ch \in 1..4 : imageData[ch] \in 0..255
            /\ imageData[4] = 255
            /\ s < Scale \div 100 =>
                  r = 0 /\ g = 0 /\ b = (s * 2000) \div Scale
            /\ (s >= Scale \div 100 /\ s < Scale \div 4) =>
                  r = 0 /\ g = 0 /\ b \in 50..205
            /\ (s >= Scale \div 4 /\ s < Scale \div 2) =>
                  r = 0 /\ g \in 0..180 /\ b \in 155..205
            /\ (s >= Scale \div 2 /\ s < (3 * Scale) \div 4) =>
                  r \in 0..255 /\ g \in 180..255 /\ b \in 0..155
            /\ s >= (3 * Scale) \div 4 =>
                  r = 255 /\ g \in 0..255 /\ b = 0
            /\ s = Scale \div 4 => (g = 0 /\ b = 205)
            /\ s = Scale \div 2 => (r = 0 /\ g = 180 /\ b = 155)
            /\ s = (3 * Scale) \div 4 => (g = 255)
            /\ s = Scale => (g = 0)

\* a coloured pixel of the fourth band, where all three channels are used
C13_Witness ==
    /\ imageData # << >>
    /\ scaledMagnitude = 625
    /\ imageData = << 127, 217, 77, 255 >>

=============================================================================
